---------------------------- MODULE Spec2Model ----------------------------
(***************************************************************************)
(* The Fluent resolver (fluent/src/resolver.js) as a state machine.        *)
(*                                                                         *)
(* The resolver is a set of mutually recursive functions over the runtime  *)
(* entry tree.  The model runs them on an explicit stack: `ctl` is the     *)
(* call being made or the value being returned, `stack` holds one frame    *)
(* for every call that still has work to do after a nested `Type` call     *)
(* returns.  Every JavaScript value (tree node, argument, runtime value)   *)
(* is a record with a `type` tag.                                          *)
(***************************************************************************)
EXTENDS Integers, Sequences, FiniteSets, TLC

VARIABLES
    useIsolating,   \* ctx.useIsolating
    node,           \* the entry or pattern handed to format
    args,           \* the argument bag handed to format
    errors,         \* env.errors, the caller's error list
    dirty,          \* env.dirty, identities of the patterns in progress
    ctl,            \* the call in progress / the value being returned
    stack,          \* the JavaScript call stack, innermost frame first
    alloc,          \* number of result arrays allocated in this call
    out,            \* what format returned
    reentered,      \* history: identities of the patterns found dirty
    obs,            \* history: the last placeable substituted by Pattern
    chose,          \* history: the last choice of SelectExpression
    ext,            \* history: the last ExternalArgument call
    calls,          \* number of format calls made on the context
    first           \* history: the first completed format call

vars == <<useIsolating, node, args, errors, dirty, ctl, stack, alloc, out,
          reentered, obs, chose, ext, calls, first>>

----------------------------------------------------------------------------
(* Bounds of the model.                                                    *)

\* Longest ad-hoc pattern handed to format.
MaxElems == 2
\* Most variants of an ad-hoc select expression.
MaxVars == 2
\* Numbers passed as external arguments are 0..MaxNum.
MaxNum == 2
\* Format calls made on one context in SpecRepeat.
MaxCalls == 3

----------------------------------------------------------------------------
(* Program constants.                                                      *)

MAX_PLACEABLE_LENGTH == 2500

\* One-character stand-ins for U+2068 and U+2069.
FSI == "<"
PDI == ">"

----------------------------------------------------------------------------
(* JavaScript values.                                                      *)

Undef == [type |-> "undefined"]
Null == [type |-> "null"]
Str(s) == [type |-> "str", s |-> s]
\* An array: a pattern of the entry tree, or a list of resolved parts.
\* `id` is the identity of the array object.
Arr(id, elems) == [type |-> "array", id |-> id, elems |-> elems]
\* A primitive number, a Date (valid or Invalid Date), and the other
\* kinds of values a caller can put into the argument bag.
Number(n) == [type |-> "number", n |-> n, nan |-> FALSE]
Date(valid) == [type |-> "date", valid |-> valid]
Boolean == [type |-> "boolean"]
PlainObject == [type |-> "object"]
PlainArray == [type |-> "jsarray"]
Function(name) == [type |-> "function", name |-> name]

\* typeof v
TypeOf(v) ==
    CASE v.type = "str" -> "string"
      [] v.type = "number" -> "number"
      [] v.type = "boolean" -> "boolean"
      [] v.type = "undefined" -> "undefined"
      [] v.type = "function" -> "function"
      [] OTHER -> "object"

\* An error pushed onto env.errors.
Error(kind, msg) == [kind |-> kind, msg |-> msg]
\* new RangeError('Cyclic reference')
CyclicReference == Error("RangeError", "Cyclic reference")

RECURSIVE IntToStr(_)
IntToStr(n) ==
    LET d == n % 10
        c == CASE d = 0 -> "0" [] d = 1 -> "1" [] d = 2 -> "2" [] d = 3 -> "3"
               [] d = 4 -> "4" [] d = 5 -> "5" [] d = 6 -> "6" [] d = 7 -> "7"
               [] d = 8 -> "8" [] OTHER -> "9"
    IN IF n < 10 THEN c ELSE IntToStr(n \div 10) \o c

RECURSIVE Repeat(_, _)
Repeat(s, n) ==
    IF n = 0 THEN ""
    ELSE IF n % 2 = 1 THEN s \o Repeat(s, n - 1)
    ELSE LET h == Repeat(s, n \div 2) IN h \o h

----------------------------------------------------------------------------
(* Runtime types (FluentType and its subclasses).                          *)

\* new FluentType(value): the abstract base class.
FluentType == [type |-> "ftype"]
\* new FluentNone(value); hint "" stands for an undefined value.
FluentNone(hint) == [type |-> "fnone", hint |-> hint]

\* parseFloat(value) of a number or of the text of a number literal;
\* nan is TRUE when the result is NaN.
ParseFloat(v) ==
    CASE v.type = "number" -> [n |-> v.n, nan |-> v.nan]
      [] v.type = "str" /\ v.s = "0" -> [n |-> 0, nan |-> FALSE]
      [] v.type = "str" /\ v.s = "1" -> [n |-> 1, nan |-> FALSE]
      [] v.type = "str" /\ v.s = "2" -> [n |-> 2, nan |-> FALSE]
      [] v.type = "str" /\ v.s = "3" -> [n |-> 3, nan |-> FALSE]
      [] OTHER -> [n |-> 0, nan |-> TRUE]

FluentNumber(value) ==
    LET f == ParseFloat(value)
    IN [type |-> "fnum", value |-> f.n, nan |-> f.nan]

\* new FluentDateTime(value): new Date(value) keeps an Invalid Date invalid.
FluentDateTime(value) == [type |-> "fdate", valid |-> value.valid]

FluentKeyword(name) == [type |-> "fkw", value |-> name]

\* v instanceof FluentType
IsFluentType(v) == v.type \in {"ftype", "fnone", "fnum", "fdate", "fkw"}

\* Intl.PluralRules("en-US").select(n), cardinal.
PluralSelect(v) == IF ~v.nan /\ v.value = 1 THEN "one" ELSE "other"

\* Whether part.valueOf(ctx) throws: the abstract FluentType.valueOf always
\* does, and Intl.DateTimeFormat.prototype.format throws a RangeError for an
\* Invalid Date.
ValueOfThrows(v) ==
    \/ v.type = "ftype"
    \/ v.type = "fdate" /\ ~v.valid

\* part.valueOf(ctx) for a part that does not throw.
ValueOf(v) ==
    CASE v.type = "str" -> v.s
      [] v.type = "fnone" -> IF v.hint = "" THEN "???" ELSE v.hint
      [] v.type = "fnum" -> IF v.nan THEN "NaN" ELSE IntToStr(v.value)
      [] v.type = "fdate" -> "1/1/2000"
      [] v.type = "fkw" -> v.value
      [] OTHER -> ""

\* FluentNumber.match(ctx, other)
NumberMatch(this, other) ==
    IF other.type = "fnum"
    THEN ~this.nan /\ ~other.nan /\ this.value = other.value
    ELSE FALSE

\* Mutant: a keyword compares a number by its text, not its plural category.
KeywordMatchNoPlural(this, other) ==
    IF other.type = "fkw" THEN this.value = other.value
    ELSE IF TypeOf(other) = "string" THEN this.value = other.s
    ELSE IF other.type = "fnum" THEN this.value = IntToStr(other.value)
    ELSE FALSE

\* FluentKeyword.match(ctx, other)
KeywordMatch(this, other) ==
    IF other.type = "fkw" THEN this.value = other.value
    ELSE IF TypeOf(other) = "string" THEN this.value = other.s
    ELSE IF other.type = "fnum" THEN this.value = PluralSelect(other)
    ELSE FALSE

\* key.match(ctx, other) for a key that has a match method.
Match(key, other) ==
    IF key.type = "fnum" THEN NumberMatch(key, other)
    ELSE KeywordMatch(key, other)

----------------------------------------------------------------------------
(* The runtime entry tree.                                                 *)

Kw(name) == [type |-> "kw", name |-> name]
Num(text) == [type |-> "num", val |-> Str(text)]
Ext(name) == [type |-> "ext", name |-> name]
Ref(name) == [type |-> "ref", name |-> name]
Attr(id, name) == [type |-> "attr", id |-> Ref(id), name |-> name]
Var(id, key) == [type |-> "var", id |-> Ref(id), key |-> key]
\* exp is Null for a variant list; def is the 0-based index of the default.
Sel(exp, vs, def) == [type |-> "sel", exp |-> exp, vars |-> vs, def |-> def]
Fun(name) == [type |-> "fun", name |-> name]
Call(fun, as) == [type |-> "call", fun |-> Fun(fun), args |-> as]
\* An object without a type: a message {val, attrs} or a variant {key, val}.
Message(val, attrs) == [type |-> "obj", val |-> val, attrs |-> attrs, key |-> Undef]
Variant(key, val) == [type |-> "obj", val |-> val, attrs |-> <<>>, key |-> key]
NoAttrs == <<>>

\* The identity of the array that is the value of an entry.
PatternId(name) == <<name, 0>>
\* The identity of the n-th result array allocated by a resolve call.
ResultId(n) == <<"result", n>>
Pattern0(name, elems) == Arr(PatternId(name), elems)

\* ctx.messages: the messages of the resolver's own tests, and a few more
\* that exercise the remaining expressions.
Messages ==
    [n \in {"foo", "bar", "baz", "noval", "refnoval", "cyc1", "cyc2", "self",
            "selfmem", "selcyc", "refselcyc", "selself", "selattr", "twice",
            "sub", "brand", "msgvar", "msgvarx", "varsub", "attrok",
            "attrmiss", "attrsub", "refsub", "numsel", "exty", "call",
            "callmiss", "seltwice"} |->
      CASE n = "foo" -> Message(Str("Foo"), NoAttrs)
        [] n = "bar" ->
             Message(Pattern0("bar", <<Ref("foo"), Str(" Bar")>>), NoAttrs)
        [] n = "baz" -> Message(Pattern0("baz", <<Ref("missing")>>), NoAttrs)
        [] n = "noval" -> Message(Undef, [a \in {"attr"} |-> Str("Foo Attr")])
        [] n = "refnoval" ->
             Message(Pattern0("refnoval", <<Ref("noval"), Str(" Bar")>>), NoAttrs)
        [] n = "cyc1" -> Message(Pattern0("cyc1", <<Ref("cyc2")>>), NoAttrs)
        [] n = "cyc2" -> Message(Pattern0("cyc2", <<Ref("cyc1")>>), NoAttrs)
        [] n = "self" -> Message(Pattern0("self", <<Ref("self")>>), NoAttrs)
        [] n = "selfmem" ->
             Message(Pattern0("selfmem",
                 <<Sel(Ext("x"),
                       <<Variant(Kw("a"), Pattern0("selfmem[a]", <<Ref("selfmem")>>)),
                         Variant(Kw("b"), Str("Bar"))>>, 0)>>), NoAttrs)
        [] n = "selcyc" ->
             Message(Pattern0("selcyc",
                 <<Sel(Ref("refselcyc"), <<Variant(Kw("a"), Str("Foo"))>>, 0)>>),
                 NoAttrs)
        [] n = "refselcyc" ->
             Message(Pattern0("refselcyc", <<Ref("selcyc")>>), NoAttrs)
        [] n = "selself" ->
             Message(Pattern0("selself",
                 <<Sel(Ref("selself"), <<Variant(Kw("a"), Str("Foo"))>>, 0)>>),
                 NoAttrs)
        [] n = "selattr" ->
             Message(Pattern0("selattr",
                 <<Sel(Attr("selattr", "attr"), <<Variant(Kw("a"), Str("Bar"))>>, 0)>>),
                 [a \in {"attr"} |-> Str("a")])
        [] n = "twice" ->
             Message(Pattern0("twice", <<Ref("twice"), Str(" "), Ref("twice")>>),
                     NoAttrs)
        [] n = "sub" -> Message(Pattern0("sub", <<Ext("x")>>), NoAttrs)
        [] n = "brand" ->
             Message(Pattern0("brand",
                 <<Sel(Null, <<Variant(Kw("nom"), Str("Firefox")),
                               Variant(Kw("gen"), Str("Firefoxa"))>>, 0)>>), NoAttrs)
        [] n = "msgvar" ->
             Message(Pattern0("msgvar", <<Var("brand", Kw("gen"))>>), NoAttrs)
        [] n = "msgvarx" ->
             Message(Pattern0("msgvarx", <<Var("brand", Kw("acc"))>>), NoAttrs)
        [] n = "varsub" ->
             Message(Pattern0("varsub", <<Var("sub", Kw("gen"))>>), NoAttrs)
        [] n = "attrok" ->
             Message(Pattern0("attrok", <<Attr("noval", "attr")>>), NoAttrs)
        [] n = "attrmiss" ->
             Message(Pattern0("attrmiss", <<Attr("bar", "nope")>>), NoAttrs)
        [] n = "attrsub" ->
             Message(Pattern0("attrsub", <<Attr("sub", "nope"), Str(" B")>>), NoAttrs)
        [] n = "refsub" -> Message(Pattern0("refsub", <<Ref("sub")>>), NoAttrs)
        [] n = "numsel" ->
             Message(Pattern0("numsel",
                 <<Sel(Num("1"), <<Variant(Num("0"), Str("A")),
                                   Variant(Num("1"), Str("B"))>>, 0)>>), NoAttrs)
        [] n = "seltwice" ->
             Message(Pattern0("seltwice",
                 <<Sel(Ref("sub"),
                       <<Variant(Kw("a"), Pattern0("seltwice[a]", <<Ref("sub")>>))>>,
                       0)>>), NoAttrs)
        [] n = "exty" -> Message(Pattern0("exty", <<Ext("y")>>), NoAttrs)
        [] n = "call" ->
             Message(Pattern0("call", <<Call("NUMBER", <<Ext("x")>>)>>), NoAttrs)
        [] OTHER ->
             Message(Pattern0("callmiss", <<Call("MISSING", <<Ext("x")>>)>>), NoAttrs)]

\* ctx.messages.get(name)
MessagesGet(name) ==
    IF name \in DOMAIN Messages THEN Messages[name] ELSE Undef

\* Sequences over S of length 1..n.
SeqsUpTo(S, n) == UNION {[1..k -> S] : k \in 1..n}

\* Patterns handed to format directly (format takes an entry or a pattern).
AdHocElems ==
    {Str("A"), Ref("foo"), Ref("missing"), Ref("noval"), Ref("sub"), Ref("self"),
     Ext("x")}
AdHocPatterns == {Pattern0("adhoc", es) : es \in SeqsUpTo(AdHocElems, MaxElems)}

\* Select expressions handed to format: every selector of SelExps over every
\* list of 1..MaxVars variants with keys of SelKeys and every default.
\* The i-th variant has the value "V<i>".
SelExps ==
    {Ext("x"), Ref("missing"), Ref("sub"), Ref("self"), Num("1"), Str("c")}
SelKeys == {Kw("a"), Kw("one"), Kw("other"), Num("1")}
VariantsOf(ks) == [i \in 1..Len(ks) |-> Variant(ks[i], Str("V" \o IntToStr(i)))]
AdHocSelects ==
    {Pattern0("adhoc", <<Sel(e, VariantsOf(kd[1]), kd[2])>>) :
        e \in SelExps,
        kd \in {x \in SeqsUpTo(SelKeys, MaxVars) \X (0..(MaxVars - 1)) :
                   x[2] < Len(x[1])}}

\* Everything format is called on.
TopNodes ==
    {Messages[n] : n \in DOMAIN Messages} \cup AdHocPatterns \cup AdHocSelects

\* Argument bags: none at all, an empty one, or one with the argument x.
NoArgs == [given |-> FALSE, bag |-> <<>>]
Bag(b) == [given |-> TRUE, bag |-> b]
ArgValues ==
    {Str("a"), Str("b"), Str("c"),
     Str(Repeat("x", MAX_PLACEABLE_LENGTH)),
     Str(Repeat("x", MAX_PLACEABLE_LENGTH + 1))}
    \cup {Number(n) : n \in 0..MaxNum}
    \cup {Date(TRUE), Date(FALSE)}
    \cup {FluentNumber(Number(1)), FluentKeyword("a"), FluentNone("n"),
          FluentDateTime(Date(TRUE)), FluentType}
    \cup {Boolean, Null, Undef, PlainObject, PlainArray, Function("f")}
ArgBags == {NoArgs, Bag(<<>>)} \cup {Bag([n \in {"x"} |-> v]) : v \in ArgValues}

----------------------------------------------------------------------------
(* The resolver's functions that make no nested Type call: each yields a   *)
(* value v and the errors errs it pushes.                                  *)

Result(v, errs) == [v |-> v, errs |-> errs]

\* Mutant: the first member instead of the default one.
DefaultMemberFirst(members, def) ==
    IF 1 \in DOMAIN members
    THEN Result(members[1], <<>>)
    ELSE Result(FluentNone(""), <<Error("RangeError", "No default")>>)

\* DefaultMember(env, members, def)
DefaultMember(members, def) ==
    IF def + 1 \in DOMAIN members
    THEN Result(members[def + 1], <<>>)
    ELSE Result(FluentNone(""), <<Error("RangeError", "No default")>>)

\* Mutant: the fallback for an unknown message forgets the name.
MessageReferenceNoName(name) ==
    LET message == MessagesGet(name)
    IN IF message.type = "undefined"
       THEN Result(FluentNone(""),
                   <<Error("ReferenceError", "Unknown message: " \o name)>>)
       ELSE Result(message, <<>>)

\* MessageReference(env, {name})
MessageReference(name) ==
    LET message == MessagesGet(name)
    IN IF message.type = "undefined"
       THEN Result(FluentNone(name),
                   <<Error("ReferenceError", "Unknown message: " \o name)>>)
       ELSE Result(message, <<>>)

\* Type(env, key) for the key of a variant: a keyword or a number literal.
KeyType(key) ==
    IF key.type = "kw" THEN FluentKeyword(key.name) ELSE FluentNumber(key.val)

\* Mutant: an unsupported argument falls back without a TypeError.
ExternalArgumentNoTypeError(a, name) ==
    IF ~a.given \/ name \notin DOMAIN a.bag
    THEN Result(FluentNone(name),
                <<Error("ReferenceError", "Unknown external: " \o name)>>)
    ELSE LET arg == a.bag[name]
         IN IF IsFluentType(arg) THEN Result(arg, <<>>)
            ELSE CASE TypeOf(arg) = "string" -> Result(arg, <<>>)
                   [] TypeOf(arg) = "number" -> Result(FluentNumber(arg), <<>>)
                   [] TypeOf(arg) = "object" /\ arg.type = "date" ->
                        Result(FluentDateTime(arg), <<>>)
                   [] OTHER -> Result(FluentNone(name), <<>>)

\* ExternalArgument(env, {name})
ExternalArgument(a, name) ==
    IF ~a.given \/ name \notin DOMAIN a.bag
    THEN Result(FluentNone(name),
                <<Error("ReferenceError", "Unknown external: " \o name)>>)
    ELSE LET arg == a.bag[name]
             unsupported ==
                 Result(FluentNone(name),
                        <<Error("TypeError", "Unsupported external type: "
                                   \o name \o ", " \o TypeOf(arg))>>)
         IN IF IsFluentType(arg) THEN Result(arg, <<>>)
            ELSE CASE TypeOf(arg) = "string" -> Result(arg, <<>>)
                   [] TypeOf(arg) = "number" -> Result(FluentNumber(arg), <<>>)
                   [] TypeOf(arg) = "object" ->
                        IF arg.type = "date"
                        THEN Result(FluentDateTime(arg), <<>>)
                        ELSE unsupported
                   [] OTHER -> unsupported

\* The built-in functions; the context of the model supplies none of its own.
BuiltinNames == {"NUMBER"}

\* NUMBER(posargs): the first positional argument wrapped as a number.
BuiltinNUMBER(posargs) ==
    IF Len(posargs) > 0 /\ posargs[1].type = "fnum"
    THEN posargs[1]
    ELSE [type |-> "fnum", value |-> 0, nan |-> TRUE]

\* FunctionReference(env, {name})
FunctionReference(name) ==
    IF name \notin BuiltinNames
    THEN Result(FluentNone(name \o "()"),
                <<Error("ReferenceError", "Unknown function: " \o name \o "()")>>)
    ELSE Result(Function(name), <<>>)

\* isVariantList(node) of VariantExpression
IsVariantList(n) ==
    /\ n.type = "array"
    /\ n.elems[1].type = "sel"
    /\ n.elems[1].exp.type = "null"

\* Mutant: the loop goes on after a match, and the last match wins.
LastIndex(hits) ==
    IF hits = {} THEN 0 ELSE CHOOSE i \in hits : \A j \in hits : i >= j

\* The first of the indices hits when a loop tries them in order, or 0.
FirstIndex(hits) ==
    IF hits = {} THEN 0 ELSE CHOOSE i \in hits : \A j \in hits : i <= j

\* The body of SelectExpression after the selector has been resolved.
SelectMember(selector, expr) ==
    LET KeyMatches(key) == key.type \in {"fnum", "fkw"} /\ Match(key, selector)
        i == FirstIndex({j \in DOMAIN expr.vars :
                            KeyMatches(KeyType(expr.vars[j].key))})
    IN IF selector.type = "fnone" THEN DefaultMember(expr.vars, expr.def)
       ELSE IF i # 0 THEN Result(expr.vars[i], <<>>)
       ELSE DefaultMember(expr.vars, expr.def)

\* The results of key.match in the loop of SelectExpression, one for each
\* variant the loop reaches.
SelectTried(selector, expr) ==
    LET KeyMatches(key) == key.type \in {"fnum", "fkw"} /\ Match(key, selector)
        all == [j \in DOMAIN expr.vars |-> KeyMatches(KeyType(expr.vars[j].key))]
        i == FirstIndex({j \in DOMAIN expr.vars : all[j]})
    IN IF selector.type = "fnone" THEN <<>>
       ELSE IF i # 0 THEN SubSeq(all, 1, i)
       ELSE all

RECURSIVE SumLengths(_)
SumLengths(parts) ==
    IF parts = <<>> THEN 0
    ELSE Len(ValueOf(Head(parts))) + SumLengths(Tail(parts))

\* PlaceableLength(env, parts), for parts none of which throws.
PlaceableLength(parts) == SumLengths(parts)

\* Whether the valueOf of some part throws.
SomeValueOfThrows(parts) == \E i \in DOMAIN parts : ValueOfThrows(parts[i])

RECURSIVE JoinParts(_)
JoinParts(parts) ==
    IF parts = <<>> THEN ""
    ELSE ValueOf(Head(parts)) \o JoinParts(Tail(parts))

----------------------------------------------------------------------------
(* The state machine.                                                      *)

Ctl(mode, v) == [mode |-> mode, v |-> v]
NoObs == [n |-> 0, len |-> 0, pushed |-> <<>>, result |-> <<>>]
NoChoice == [n |-> 0, selector |-> Undef, expr |-> Undef, member |-> Undef,
             errs |-> <<>>, tried |-> <<>>]
NoExt == [n |-> 0, name |-> "", v |-> Undef, errs |-> <<>>]
NoCall == [node |-> Undef, args |-> NoArgs, outcome |-> "none", out |-> Undef,
           errors |-> <<>>, others |-> FALSE]

Init ==
    /\ useIsolating \in BOOLEAN
    /\ node = Undef
    /\ args = NoArgs
    /\ errors = <<>>
    /\ dirty = {}
    /\ ctl = Ctl("idle", Undef)
    /\ stack = <<>>
    /\ alloc = 0
    /\ out = Undef
    /\ reentered = <<>>
    /\ obs = NoObs
    /\ chose = NoChoice
    /\ ext = NoExt
    /\ calls = 0
    /\ first = NoCall

\* No call is in progress on the context.
Idle == ctl.mode \in {"idle", "done", "raised"}
\* Type(env, ctl.v) is being called.
Calling == ctl.mode = "call"
\* ctl.v is being returned to the innermost frame.
Returning == ctl.mode = "ret"
Top == stack[1]
TopIs(f) == stack # <<>> /\ Top.f = f

inputs == <<useIsolating, node, args, calls, first>>
\* The record of a call that ends now with outcome oc and result o.
Completed(oc, o) ==
    IF first.outcome = "none"
    THEN [node |-> node, args |-> args, outcome |-> oc, out |-> o,
          errors |-> errors, others |-> FALSE]
    ELSE first
\* The record of the first call when format is called on n with a: others
\* tells whether a call with other inputs has followed the first.
Noted(n, a) ==
    IF first.outcome # "none" /\ (n # first.node \/ a # first.args)
    THEN [first EXCEPT !.others = TRUE]
    ELSE first
history == <<reentered, obs, chose, ext>>

\* Type returns v, having pushed errs.
Return(v, errs) ==
    /\ ctl' = Ctl("ret", v)
    /\ errors' = errors \o errs
\* Type makes the tail call Type(env, v), having pushed errs.
TailCall(v, errs) ==
    /\ ctl' = Ctl("call", v)
    /\ errors' = errors \o errs

\* format(entry, args, errors) on an entry without a value: null, and no
\* error.  No env is made, and the env of the call before is gone.
FormatNoValue(n, a) ==
    /\ Idle
    /\ n.type = "obj" /\ n.val.type = "undefined"
    /\ node' = n /\ args' = a
    /\ errors' = <<>>
    /\ out' = Null
    /\ ctl' = Ctl("done", Null)
    /\ calls' = calls + 1
    /\ first' = IF first.outcome = "none"
                THEN [node |-> n, args |-> a, outcome |-> "done", out |-> Null,
                      errors |-> <<>>, others |-> FALSE]
                ELSE Noted(n, a)
    /\ reentered' = <<>> /\ obs' = NoObs /\ chose' = NoChoice /\ ext' = NoExt
    /\ dirty' = {}
    /\ UNCHANGED <<useIsolating, stack, alloc>>

\* Mutant: the dirty set outlives the call (one set for the module).
ResolveSharedDirty(n, a) ==
    /\ Idle
    /\ ~(n.type = "obj" /\ n.val.type = "undefined")
    /\ node' = n /\ args' = a
    /\ errors' = <<>>
    /\ dirty' = dirty
    /\ ctl' = Ctl("call", n)
    /\ stack' = <<>>
    /\ alloc' = 0
    /\ out' = Undef
    /\ calls' = calls + 1
    /\ reentered' = <<>> /\ obs' = NoObs /\ chose' = NoChoice /\ ext' = NoExt
    /\ first' = Noted(n, a)
    /\ UNCHANGED useIsolating

\* resolve(ctx, args, message, errors), called by format with the caller's
\* empty error list: a fresh env, then Type(env, message).
Resolve(n, a) ==
    /\ Idle
    /\ ~(n.type = "obj" /\ n.val.type = "undefined")
    /\ node' = n /\ args' = a
    /\ errors' = <<>>
    /\ dirty' = {}
    /\ ctl' = Ctl("call", n)
    /\ stack' = <<>>
    /\ alloc' = 0
    /\ out' = Undef
    /\ calls' = calls + 1
    /\ reentered' = <<>> /\ obs' = NoObs /\ chose' = NoChoice /\ ext' = NoExt
    /\ first' = Noted(n, a)
    /\ UNCHANGED useIsolating

\* Type: the fast path for strings and FluentNone.
TypeFastPath ==
    /\ Calling
    /\ ctl.v.type \in {"str", "fnone"}
    /\ Return(ctl.v, <<>>)
    /\ UNCHANGED <<inputs, history, dirty, stack, alloc, out>>

\* Type: case 'kw' and case 'num'.
TypeLiteral ==
    /\ Calling
    /\ ctl.v.type \in {"kw", "num"}
    /\ Return(KeyType(ctl.v), <<>>)
    /\ UNCHANGED <<inputs, history, dirty, stack, alloc, out>>

\* Type: case 'ext'.
TypeExternalArgument ==
    /\ Calling
    /\ ctl.v.type = "ext"
    /\ LET r == ExternalArgument(args, ctl.v.name)
       IN /\ Return(r.v, r.errs)
          /\ ext' = [n |-> ext.n + 1, name |-> ctl.v.name, v |-> r.v,
                     errs |-> r.errs]
    /\ UNCHANGED <<inputs, reentered, obs, chose, dirty, stack, alloc, out>>

\* Type: case 'ref'.
TypeMessageReference ==
    /\ Calling
    /\ ctl.v.type = "ref"
    /\ LET r == MessageReference(ctl.v.name) IN TailCall(r.v, r.errs)
    /\ UNCHANGED <<inputs, history, dirty, stack, alloc, out>>

\* Type: case undefined, a node without a type (a message, a variant, or
\* an instance of a FluentType other than FluentNone).
TypeNode ==
    /\ Calling
    /\ ctl.v.type \in {"obj", "fnum", "fkw", "fdate", "ftype", "function"}
    /\ IF ctl.v.type = "obj" /\ ctl.v.val.type # "undefined"
       THEN TailCall(ctl.v.val, <<>>)
       ELSE Return(FluentNone(""), <<Error("RangeError", "No value")>>)
    /\ UNCHANGED <<inputs, history, dirty, stack, alloc, out>>

\* Type: case 'attr', with AttributeExpression.  When the attribute is
\* missing AttributeExpression returns Type(env, message), and Type then
\* resolves that result once more.
TypeAttributeExpression ==
    /\ Calling
    /\ ctl.v.type = "attr"
    /\ LET m == MessageReference(ctl.v.id.name)
           name == ctl.v.name
       IN IF m.v.type = "fnone"
          THEN TailCall(m.v, m.errs) /\ stack' = stack
          ELSE IF name \in DOMAIN m.v.attrs
          THEN TailCall(m.v.attrs[name], <<>>) /\ stack' = stack
          ELSE /\ TailCall(m.v, <<Error("ReferenceError",
                                        "Unknown attribute: " \o name)>>)
               /\ stack' = <<[f |-> "Again"]>> \o stack
    /\ UNCHANGED <<inputs, history, dirty, alloc, out>>

\* Type: case 'var', with VariantExpression.
TypeVariantExpression ==
    /\ Calling
    /\ ctl.v.type = "var"
    /\ LET m == MessageReference(ctl.v.id.name)
           keyword == KeyType(ctl.v.key)
           KeyMatches(variantKey) == Match(keyword, variantKey)
           vs == IF IsVariantList(m.v.val) THEN m.v.val.elems[1].vars ELSE <<>>
           i == FirstIndex({j \in DOMAIN vs : KeyMatches(KeyType(vs[j].key))})
       IN IF m.v.type = "fnone"
          THEN TailCall(m.v, m.errs) /\ stack' = stack
          ELSE IF i # 0
          THEN TailCall(vs[i], <<>>) /\ stack' = stack
          ELSE /\ TailCall(m.v, <<Error("ReferenceError",
                                        "Unknown variant: " \o ValueOf(keyword))>>)
               /\ stack' = <<[f |-> "Again"]>> \o stack
    /\ UNCHANGED <<inputs, history, dirty, alloc, out>>

\* The value AttributeExpression or VariantExpression fell back to is
\* handed to Type again.
TypeAgain ==
    /\ Returning
    /\ TopIs("Again")
    /\ ctl' = Ctl("call", ctl.v)
    /\ stack' = Tail(stack)
    /\ UNCHANGED <<inputs, history, errors, dirty, alloc, out>>

\* Type: case 'sel', and SelectExpression up to the selector.
TypeSelectExpression ==
    /\ Calling
    /\ ctl.v.type = "sel"
    /\ IF ctl.v.exp.type = "null"
       THEN /\ LET r == DefaultMember(ctl.v.vars, ctl.v.def)
               IN TailCall(r.v, r.errs)
            /\ stack' = stack
       ELSE /\ TailCall(ctl.v.exp, <<>>)
            /\ stack' = <<[f |-> "Select", expr |-> ctl.v]>> \o stack
    /\ UNCHANGED <<inputs, history, dirty, alloc, out>>

\* SelectExpression from the resolved selector on; Type resolves the member.
SelectChoose ==
    /\ Returning
    /\ TopIs("Select")
    /\ LET r == SelectMember(ctl.v, Top.expr)
       IN /\ TailCall(r.v, r.errs)
          /\ chose' = [n |-> chose.n + 1, selector |-> ctl.v, expr |-> Top.expr,
                       member |-> r.v, errs |-> r.errs,
                       tried |-> SelectTried(ctl.v, Top.expr)]
    /\ stack' = Tail(stack)
    /\ UNCHANGED <<inputs, reentered, obs, ext, dirty, alloc, out>>

\* Type: case 'call', and CallExpression up to its first argument.
TypeCallExpression ==
    /\ Calling
    /\ ctl.v.type = "call"
    /\ LET callee == FunctionReference(ctl.v.fun.name)
       IN IF callee.v.type = "fnone"
          THEN Return(callee.v, callee.errs) /\ stack' = stack
          ELSE IF ctl.v.args = <<>>
          THEN Return(BuiltinNUMBER(<<>>), <<>>) /\ stack' = stack
          ELSE /\ TailCall(ctl.v.args[1], <<>>)
               /\ stack' = <<[f |-> "Call", expr |-> ctl.v, i |-> 1,
                              posargs |-> <<>>]>> \o stack
    /\ UNCHANGED <<inputs, history, dirty, alloc, out>>

\* CallExpression: a positional argument has been resolved; after the last
\* one the callee is invoked.
CallArgument ==
    /\ Returning
    /\ TopIs("Call")
    /\ LET posargs == Append(Top.posargs, ctl.v)
       IN IF Top.i < Len(Top.expr.args)
          THEN /\ TailCall(Top.expr.args[Top.i + 1], <<>>)
               /\ stack' = <<[Top EXCEPT !.i = @ + 1, !.posargs = posargs]>>
                              \o Tail(stack)
          ELSE /\ Return(BuiltinNUMBER(posargs), <<>>)
               /\ stack' = Tail(stack)
    /\ UNCHANGED <<inputs, history, dirty, alloc, out>>

\* Mutant: the cyclic early return without its error.
PatternCyclicSilent ==
    /\ Calling
    /\ ctl.v.type = "array"
    /\ ctl.v.id \in dirty
    /\ Return(FluentNone(""), <<>>)
    /\ reentered' = Append(reentered, ctl.v.id)
    /\ UNCHANGED <<inputs, obs, chose, ext, dirty, stack, alloc, out>>

\* Mutant: the cyclic reference is reported once for each pattern only.
PatternCyclicOnce ==
    /\ Calling
    /\ ctl.v.type = "array"
    /\ ctl.v.id \in dirty
    /\ Return(FluentNone(""),
              IF ctl.v.id \in {reentered[i] : i \in DOMAIN reentered}
              THEN <<>> ELSE <<CyclicReference>>)
    /\ reentered' = Append(reentered, ctl.v.id)
    /\ UNCHANGED <<inputs, obs, chose, ext, dirty, stack, alloc, out>>

\* Pattern found dirty: the cyclic early return.
PatternCyclic ==
    /\ Calling
    /\ ctl.v.type = "array"
    /\ ctl.v.id \in dirty
    /\ Return(FluentNone(""), <<CyclicReference>>)
    /\ reentered' = Append(reentered, ctl.v.id)
    /\ UNCHANGED <<inputs, obs, chose, ext, dirty, stack, alloc, out>>

\* Pattern: the pattern is tagged dirty and its walk starts.
PatternEnter ==
    /\ Calling
    /\ ctl.v.type = "array"
    /\ ctl.v.id \notin dirty
    /\ dirty' = dirty \cup {ctl.v.id}
    /\ stack' = <<[f |-> "Pattern", ptn |-> ctl.v, i |-> 1, result |-> <<>>]>>
                  \o stack
    /\ ctl' = Ctl("walk", Undef)
    /\ UNCHANGED <<inputs, history, errors, alloc, out>>

\* The Pattern on top of the stack is at its loop.
Walking == ctl.mode = "walk" /\ TopIs("Pattern")

\* Pattern: a string element is pushed as it is.
PatternLiteral ==
    /\ Walking
    /\ Top.i <= Len(Top.ptn.elems)
    /\ Top.ptn.elems[Top.i].type = "str"
    /\ stack' = <<[Top EXCEPT !.i = @ + 1,
                              !.result = Append(@, Top.ptn.elems[Top.i])]>>
                  \o Tail(stack)
    /\ UNCHANGED <<inputs, history, errors, dirty, ctl, alloc, out>>

\* Pattern: Type is called on an element that is not a string.
PatternPlaceable ==
    /\ Walking
    /\ Top.i <= Len(Top.ptn.elems)
    /\ Top.ptn.elems[Top.i].type # "str"
    /\ ctl' = Ctl("call", Top.ptn.elems[Top.i])
    /\ UNCHANGED <<inputs, history, errors, dirty, stack, alloc, out>>

\* What Pattern pushes for the resolved part: the part, its parts when it
\* is an array, or one FluentNone when they are too long; and the error.
Substitute(part) ==
    IF part.type = "array"
    THEN LET len == PlaceableLength(part.elems)
         IN IF len > MAX_PLACEABLE_LENGTH
            THEN Result(<<FluentNone("")>>,
                        <<Error("RangeError",
                                "Too many characters in placeable ("
                                \o IntToStr(len) \o ", max allowed is "
                                \o IntToStr(MAX_PLACEABLE_LENGTH) \o ")")>>)
            ELSE Result(part.elems, <<>>)
    ELSE Result(<<part>>, <<>>)

\* Mutant: a placeable that fell back to FluentNone is not isolated.
IsolateUnlessNone(parts) ==
    IF useIsolating /\ parts # <<FluentNone("")>>
    THEN <<Str(FSI)>> \o parts \o <<Str(PDI)>>
    ELSE parts

\* FSI before and PDI after the pushed parts when ctx.useIsolating.
Isolate(parts) ==
    IF useIsolating THEN <<Str(FSI)>> \o parts \o <<Str(PDI)>> ELSE parts

\* The length of the string the resolved part stands for (0 when it has
\* none because valueOf throws).
StringLength(part) ==
    IF part.type = "array" THEN PlaceableLength(part.elems)
    ELSE IF ValueOfThrows(part) THEN 0
    ELSE Len(ValueOf(part))

\* Pattern: the element's value came back and is pushed; PlaceableLength
\* throws when the valueOf of one of the parts throws, and nothing on the
\* stack catches it.
PatternPart ==
    /\ Returning
    /\ TopIs("Pattern")
    /\ IF ctl.v.type = "array" /\ SomeValueOfThrows(ctl.v.elems)
       THEN /\ ctl' = Ctl("raised", Str("PlaceableLength"))
            /\ stack' = <<>>
            /\ first' = Completed("raised", Undef)
            /\ UNCHANGED <<errors, obs>>
       ELSE LET r == Substitute(ctl.v)
            IN /\ stack' = <<[Top EXCEPT !.i = @ + 1,
                                         !.result = @ \o Isolate(r.v)]>>
                             \o Tail(stack)
               /\ errors' = errors \o r.errs
               /\ ctl' = Ctl("walk", Undef)
               /\ obs' = [n |-> obs.n + 1, len |-> StringLength(ctl.v),
                          pushed |-> r.v,
                          result |-> Top.result \o Isolate(r.v)]
               /\ first' = first
    /\ UNCHANGED <<useIsolating, node, args, calls, reentered, chose, ext,
                   dirty, alloc, out>>

\* Mutant: the pattern stays dirty after its walk.
PatternReturnStillDirty ==
    /\ Walking
    /\ Top.i > Len(Top.ptn.elems)
    /\ dirty' = dirty
    /\ alloc' = alloc + 1
    /\ ctl' = Ctl("ret", Arr(ResultId(alloc + 1), Top.result))
    /\ stack' = Tail(stack)
    /\ UNCHANGED <<inputs, history, errors, out>>

\* Pattern: the walk is over; the pattern is no longer dirty and the
\* result array is returned.
PatternReturn ==
    /\ Walking
    /\ Top.i > Len(Top.ptn.elems)
    /\ dirty' = dirty \ {Top.ptn.id}
    /\ alloc' = alloc + 1
    /\ ctl' = Ctl("ret", Arr(ResultId(alloc + 1), Top.result))
    /\ stack' = Tail(stack)
    /\ UNCHANGED <<inputs, history, errors, out>>

\* resolve has returned ctl.v to format, which joins the parts by their
\* valueOf.
FormatJoin ==
    /\ Returning
    /\ stack = <<>>
    /\ LET parts == IF ctl.v.type = "array" THEN ctl.v.elems ELSE <<ctl.v>>
       IN IF SomeValueOfThrows(parts)
          THEN /\ ctl' = Ctl("raised", Str("format"))
               /\ out' = Undef
               /\ first' = Completed("raised", Undef)
          ELSE /\ ctl' = Ctl("done", ctl.v)
               /\ out' = Str(JoinParts(parts))
               /\ first' = Completed("done", Str(JoinParts(parts)))
    /\ UNCHANGED <<useIsolating, node, args, calls, history, errors, dirty,
                   stack, alloc>>

\* One step of a resolve call.
Step ==
    \/ TypeFastPath
    \/ TypeLiteral
    \/ TypeExternalArgument
    \/ TypeMessageReference
    \/ TypeNode
    \/ TypeAttributeExpression
    \/ TypeVariantExpression
    \/ TypeAgain
    \/ TypeSelectExpression
    \/ SelectChoose
    \/ TypeCallExpression
    \/ CallArgument
    \/ PatternCyclic
    \/ PatternEnter
    \/ PatternLiteral
    \/ PatternPlaceable
    \/ PatternPart
    \/ PatternReturn
    \/ FormatJoin

\* One format call on a context, on any entry or pattern with any bag.
Format ==
    /\ calls = 0
    /\ \E n \in TopNodes, a \in ArgBags : FormatNoValue(n, a) \/ Resolve(n, a)

Next == Format \/ Step

Spec == Init /\ [][Next]_vars

\* Termination: a started call is never stopped half way.
FairSpec == Spec /\ WF_vars(Step)

\* Several format calls on one context.
RepeatNames ==
    {"foo", "bar", "baz", "noval", "cyc1", "self", "selfmem", "selattr",
     "twice", "sub", "refsub", "numsel", "exty", "msgvarx", "attrsub", "call",
     "varsub"}
RepeatNodes == {Messages[n] : n \in RepeatNames}
RepeatBags ==
    {NoArgs, Bag([n \in {"x"} |-> Str("a")]), Bag([n \in {"x"} |-> Number(1)]),
     Bag([n \in {"x"} |-> Date(FALSE)])}

FormatAgain ==
    /\ calls < MaxCalls
    /\ \E n \in RepeatNodes, a \in RepeatBags :
           FormatNoValue(n, a) \/ Resolve(n, a)

NextRepeat == FormatAgain \/ Step

SpecRepeat == Init /\ [][NextRepeat]_vars

----------------------------------------------------------------------------
(* Properties.                                                             *)

Done == ctl.mode = "done"
Raised == ctl.mode = "raised"
CyclicError == Error("RangeError", "Cyclic reference")
IsMessage(name) == node = Messages[name]
ArgIs(v) == args = Bag([n \in {"x"} |-> v])

\* The parts resolve returned, and those of them that are not isolates.
ResultParts ==
    CASE ctl.v.type = "array" -> ctl.v.elems
      [] ctl.v.type = "null" -> <<>>
      [] OTHER -> <<ctl.v>>
IsMark(p) == p = Str(FSI) \/ p = Str(PDI)
PlainText == JoinParts(SelectSeq(ResultParts, LAMBDA p : ~IsMark(p)))

RECURSIVE CountOf(_, _)
CountOf(e, seq) ==
    IF seq = <<>> THEN 0
    ELSE (IF Head(seq) = e THEN 1 ELSE 0) + CountOf(e, Tail(seq))

Range(seq) == {seq[i] : i \in DOMAIN seq}

\* A started call comes to an end.
Terminates == (ctl.mode = "call") ~> (Done \/ Raised)

\* C1: every top-level resolve/format call terminates and does not raise;
\* every failure ends up on the error list.  Stated here for resolve itself:
\* no exception leaves resolve.
C1_ResolveNeverRaises == ~(Raised /\ ctl.v = Str("PlaceableLength"))

\* A call of Pattern on a pattern that is dirty pushes the range error and
\* returns FluentNone at once: no frame is pushed, nothing is walked, and
\* the dirty set stays as it is.
C2_CyclicEntry ==
    [][(Calling /\ ctl.v.type = "array" /\ ctl.v.id \in dirty) =>
          /\ errors' = Append(errors, CyclicError)
          /\ ctl' = Ctl("ret", FluentNone(""))
          /\ stack' = stack
          /\ dirty' = dirty]_vars
\* What the messages of the resolver's cyclic tests format to.
C2_CyclicMessages ==
    /\ (Done /\ (IsMessage("self") \/ IsMessage("cyc1") \/ IsMessage("cyc2")))
         => /\ PlainText = "???"
            /\ ~useIsolating => out = Str("???")
            /\ errors = <<CyclicError>>
    /\ (Done /\ IsMessage("selfmem") /\ (ArgIs(Str("a")) \/ ArgIs(Str("c"))))
         => /\ PlainText = "???"
            /\ ~useIsolating => out = Str("???")
            /\ errors[1] = CyclicError
    /\ (Done /\ IsMessage("selfmem") /\ ArgIs(Str("b")))
         => /\ PlainText = "Bar"
            /\ ~useIsolating => out = Str("Bar")
            /\ errors = <<>>
\* C2: entering Pattern for a pattern that is in progress appends the range
\* error 'Cyclic reference' and yields FluentNone without walking the
\* pattern; so a self-referencing message, both messages of a two-message
\* cycle and a message whose selected variant refers back to it format to
\* "???" with that RangeError as the first error, while the variant that is
\* not part of the cycle formats to its text without an error.
C2_CyclicGuard == C2_CyclicEntry /\ []C2_CyclicMessages
C2_Witness ==
    /\ Done /\ IsMessage("cyc2") /\ ~useIsolating
    /\ out = Str("???") /\ reentered = <<PatternId("cyc2")>>

\* C3 as claimed: one 'Cyclic reference' error for each distinct pattern
\* that was re-entered while in progress.
C3_OnePerDistinctPattern ==
    Done => CountOf(CyclicError, errors) = Cardinality(Range(reentered))
\* C3 as amended: one 'Cyclic reference' error for each re-entry, so at
\* least one for each distinct pattern re-entered.
C3_OnePerReentry ==
    /\ CountOf(CyclicError, errors) = Len(reentered)
    /\ CountOf(CyclicError, errors) >= Cardinality(Range(reentered))
C3_Witness ==
    /\ Done /\ IsMessage("twice")
    /\ reentered = <<PatternId("twice"), PatternId("twice")>>
    /\ CountOf(CyclicError, errors) = 2

----------------------------------------------------------------------------
(* Select expressions.                                                     *)

\* The table of matches between a resolved selector and the key of a
\* variant, by the kinds of the two.
MatchTable(selector, key) ==
    CASE selector.type = "fkw" /\ key.type = "fkw" -> selector.value = key.value
      [] selector.type = "str" /\ key.type = "fkw" -> selector.s = key.value
      [] selector.type = "fnum" /\ key.type = "fnum" ->
           ~selector.nan /\ ~key.nan /\ selector.value = key.value
      [] selector.type = "fnum" /\ key.type = "fkw" ->
           key.value = PluralSelect(selector)
      [] OTHER -> FALSE

\* The last select expression, its default variant, and the variants whose
\* key matches its selector by the table.
ChoseKey(j) == KeyType(chose.expr.vars[j].key)
ChoseDefault == chose.expr.vars[chose.expr.def + 1]
ChoseMatching == {j \in DOMAIN chose.expr.vars : MatchTable(chose.selector, ChoseKey(j))}

\* The select expression format was called on, when its selector is e.
IsSelectOn(e) ==
    /\ node.type = "array"
    /\ node.elems[1].type = "sel"
    /\ node.elems[1].exp = e
TopDefaultText == ValueOf(node.elems[1].vars[node.elems[1].def + 1].val)

\* C4: when the selector of a select expression resolves to FluentNone or no
\* key matches it, the variant at index def is chosen and the select
\* expression appends no error of its own: an unknown-message selector
\* leaves one error, a valid selector that matches nothing leaves none.
C4_DefaultFallthrough ==
    /\ (chose.n > 0 /\ (chose.selector.type = "fnone" \/ ChoseMatching = {}))
         => /\ chose.member = ChoseDefault
            /\ chose.errs = <<>>
    /\ (Done /\ IsSelectOn(Ref("missing")))
         => /\ PlainText = TopDefaultText
            /\ Len(errors) = 1
            /\ errors[1].kind = "ReferenceError"
    /\ (Done /\ IsSelectOn(Str("c")))
         => /\ PlainText = TopDefaultText
            /\ errors = <<>>
C4_Witness ==
    /\ Done /\ IsSelectOn(Ref("missing"))
    /\ chose.selector = FluentNone("missing")
    /\ chose.expr.def = 1
    /\ chose.member = chose.expr.vars[2]
    /\ PlainText = "V2"

\* C5: when the selector resolves to a value other than FluentNone, the
\* first variant in declaration order whose key matches it is chosen,
\* wherever the default is and whatever later variant matches as well.
C5_FirstMatchWins ==
    (chose.n > 0 /\ chose.selector.type # "fnone" /\ ChoseMatching # {})
       => \E i \in ChoseMatching :
             /\ \A j \in ChoseMatching : i <= j
             /\ chose.member = chose.expr.vars[i]
C5_Witness ==
    /\ chose.n > 0
    /\ chose.selector = FluentNumber(Number(1))
    /\ ChoseMatching = {1, 2}
    /\ ChoseKey(1) = FluentKeyword("one")
    /\ ChoseKey(2) = FluentNumber(Number(1))
    /\ chose.expr.def = 1
    /\ chose.member = chose.expr.vars[1]

\* C6: every match the select expression computed between its selector and
\* the key of a variant is the one the table gives for the two kinds.
C6_MatchTable ==
    chose.n > 0 =>
       \A j \in DOMAIN chose.tried :
          chose.tried[j] = MatchTable(chose.selector, ChoseKey(j))
C6_Witness ==
    /\ chose.n > 0
    /\ chose.selector = FluentNumber(Number(1))
    /\ Len(chose.expr.vars) = 2
    /\ ChoseKey(1) = FluentKeyword("other")
    /\ ChoseKey(2) = FluentKeyword("one")
    /\ chose.tried = <<FALSE, TRUE>>

----------------------------------------------------------------------------
(* Placeables.                                                             *)

\* C7: no placeable contributes more than MAX_PLACEABLE_LENGTH characters:
\* a value that stringifies to more yields FluentNone ("???") and a range
\* error.
C7_PlaceableBound ==
    obs.n > 0 =>
       /\ obs.len > MAX_PLACEABLE_LENGTH => obs.pushed = <<FluentNone("")>>
       /\ SumLengths(obs.pushed) <= MAX_PLACEABLE_LENGTH

NoMarks(parts) == \A i \in DOMAIN parts : ~IsMark(parts[i])

\* The nesting depth of the isolates before each part; -1 when a PDI has
\* no FSI before it.
RECURSIVE Depths(_, _)
Depths(parts, d) ==
    IF parts = <<>> THEN <<d>>
    ELSE IF d < 0 THEN <<-1>>
    ELSE <<d>> \o Depths(Tail(parts),
                         CASE Head(parts) = Str(FSI) -> d + 1
                           [] Head(parts) = Str(PDI) -> d - 1
                           [] OTHER -> d)
Balanced(parts) ==
    LET ds == Depths(parts, 0)
    IN /\ Len(ds) = Len(parts) + 1
       /\ ds[Len(ds)] = 0
       /\ \A i \in DOMAIN parts : parts[i].type # "str" => ds[i] > 0

\* Whether format was called on a message or pattern of literals only.
LiteralOnly ==
    LET val == IF node.type = "obj" THEN node.val ELSE node
    IN \/ val.type = "str"
       \/ val.type = "array" /\ \A i \in DOMAIN val.elems : val.elems[i].type = "str"

\* C8: with useIsolating, what a placeable produced stands in the result
\* right after an FSI and right before a PDI, also when it fell back to
\* FluentNone; a literal is never wrapped, so a message of literals has no
\* isolate; without useIsolating no isolate is inserted at all.
C8_Isolation ==
    /\ obs.n > 0 =>
         LET k == Len(obs.pushed)
             m == Len(obs.result)
         IN IF useIsolating
            THEN /\ m >= k + 2
                 /\ obs.result[m - k - 1] = Str(FSI)
                 /\ SubSeq(obs.result, m - k, m - 1) = obs.pushed
                 /\ obs.result[m] = Str(PDI)
            ELSE /\ m >= k
                 /\ SubSeq(obs.result, m - k + 1, m) = obs.pushed
                 /\ NoMarks(obs.result)
    /\ Done => /\ useIsolating => Balanced(ResultParts)
               /\ ~useIsolating => NoMarks(ResultParts)
               /\ LiteralOnly => NoMarks(ResultParts)
C8_Witness ==
    /\ Done /\ useIsolating /\ IsMessage("refnoval")
    /\ obs.pushed = <<FluentNone("")>>
    /\ out = Str("<???> Bar")

----------------------------------------------------------------------------
(* Calls.                                                                  *)

\* C9: formatting again with the entry and the argument bag of an earlier
\* call on the same context, whatever calls were made in between, ends the
\* same way with the same output and the same errors in the same order.
C9_Idempotent ==
    (Idle /\ calls >= 2 /\ node = first.node /\ args = first.args)
       => /\ ctl.mode = first.outcome
          /\ out = first.out
          /\ errors = first.errors
C9_Witness ==
    /\ Done /\ calls = 3 /\ first.others
    /\ node = first.node /\ args = first.args
    /\ IsMessage("twice")
    /\ errors = <<CyclicError, CyclicError>>
    /\ errors = first.errors

\* C10: ExternalArgument on the name n: without a bag or without the key n
\* one reference error and FluentNone(n); a runtime value or a string as it
\* is, a number as a FluentNumber, a date as a FluentDateTime, none of them
\* with an error; anything else one type error and FluentNone(n).
C10_ExternalArgument ==
    ext.n > 0 =>
       IF ~args.given \/ ext.name \notin DOMAIN args.bag
       THEN /\ ext.v = FluentNone(ext.name)
            /\ Len(ext.errs) = 1
            /\ ext.errs[1].kind = "ReferenceError"
       ELSE LET arg == args.bag[ext.name]
            IN CASE arg.type \in {"ftype", "fnone", "fnum", "fdate", "fkw", "str"} ->
                      ext.v = arg /\ ext.errs = <<>>
                 [] arg.type = "number" ->
                      /\ ext.v.type = "fnum"
                      /\ ext.v.value = arg.n
                      /\ ext.errs = <<>>
                 [] arg.type = "date" ->
                      /\ ext.v.type = "fdate"
                      /\ ext.v.valid = arg.valid
                      /\ ext.errs = <<>>
                 [] OTHER ->
                      /\ ext.v = FluentNone(ext.name)
                      /\ Len(ext.errs) = 1
                      /\ ext.errs[1].kind = "TypeError"
C10_Witness ==
    /\ ext.n > 0 /\ ArgIs(Null)
    /\ ext.v = FluentNone("x")
    /\ ext.errs = <<Error("TypeError", "Unsupported external type: x, object")>>

----------------------------------------------------------------------------
(* References that do not resolve.                                         *)

\* The elements of a pattern whose text does not depend on the arguments:
\* literals, a reference to the message foo, a reference to an unknown
\* message, and a reference to a message without a value.
SettledElems == {Str("A"), Ref("foo"), Ref("missing"), Ref("noval")}
IsSettled(es) == \A i \in DOMAIN es : es[i] \in SettledElems
Unresolved(es) == \E i \in DOMAIN es : es[i] \in {Ref("missing"), Ref("noval")}

\* The text that stands for such an element and the errors it leaves.
ElemText(e) ==
    CASE e = Ref("foo") -> "Foo"
      [] e = Ref("missing") -> "missing"
      [] e = Ref("noval") -> "???"
      [] OTHER -> e.s
ElemErrors(e) ==
    CASE e = Ref("missing") -> <<Error("ReferenceError", "Unknown message: missing")>>
      [] e = Ref("noval") -> <<Error("RangeError", "No value")>>
      [] OTHER -> <<>>
RECURSIVE TextOf(_)
TextOf(es) == IF es = <<>> THEN "" ELSE ElemText(Head(es)) \o TextOf(Tail(es))
RECURSIVE ErrorsOf(_)
ErrorsOf(es) == IF es = <<>> THEN <<>> ELSE ElemErrors(Head(es)) \o ErrorsOf(Tail(es))

\* C11: a message reference that does not resolve never aborts the pattern
\* around it: a reference to an unknown message stands as the name and
\* leaves one reference error, a reference to a message without a value
\* stands as "???" and leaves one range error, and the literals and the
\* other placeables of the pattern appear around it in their order.
C11_UnresolvedReference ==
    /\ (ctl.mode \in {"ret", "done"} /\ node.type = "array" /\ stack = <<>>
          /\ IsSettled(node.elems))
         => /\ PlainText = TextOf(node.elems)
            /\ errors = ErrorsOf(node.elems)
    /\ (Done /\ IsMessage("baz"))
         => /\ PlainText = "missing"
            /\ Len(errors) = 1 /\ errors[1].kind = "ReferenceError"
    /\ (Done /\ IsMessage("refnoval"))
         => /\ PlainText = "??? Bar"
            /\ Len(errors) = 1 /\ errors[1].kind = "RangeError"
C11_Witness ==
    /\ Done /\ ~useIsolating
    /\ node.type = "array" /\ node.elems = <<Ref("missing"), Ref("noval")>>
    /\ out = Str("missing???")
    /\ errors = <<Error("ReferenceError", "Unknown message: missing"),
                  Error("RangeError", "No value")>>

----------------------------------------------------------------------------
(* Fallbacks of attribute and variant expressions.                         *)

\* errs is base with one reference error more.
OneReferenceErrorMore(errs, base) ==
    \E i \in DOMAIN errs :
       /\ errs[i].kind = "ReferenceError"
       /\ SubSeq(errs, 1, i - 1) \o SubSeq(errs, i + 1, Len(errs)) = base

\* The first call on the context formatted refsub, the message { sub },
\* and this call has formatted another message with the same arguments.
AfterReference ==
    /\ Done
    /\ first.outcome = "done"
    /\ first.node = Messages["refsub"]
    /\ args = first.args

\* C12: an attribute the message does not have, or a variant key that
\* matches none of its variants, leaves one reference error and falls back
\* to the value of the message: { sub[gen] } formats as { sub } does and
\* { sub.nope } B as { sub } does with " B" after it, with the errors of
\* { sub } and that one reference error.
C12_FallbackAsReference ==
    /\ (AfterReference /\ IsMessage("varsub"))
         => /\ out = first.out
            /\ OneReferenceErrorMore(errors, first.errors)
    /\ (AfterReference /\ IsMessage("attrsub"))
         => /\ out = Str(first.out.s \o " B")
            /\ OneReferenceErrorMore(errors, first.errors)

----------------------------------------------------------------------------
(* The dirty set.                                                          *)

\* The frames of Pattern on the stack, and the patterns they walk.
PatternFrames == {i \in DOMAIN stack : stack[i].f = "Pattern"}
InProgress == {stack[i].ptn.id : i \in PatternFrames}

\* C13: while resolve runs, the dirty set holds exactly the patterns that
\* Pattern is walking on the stack, each once; so it is empty when resolve
\* has returned, a pattern that is not cyclic is resolved every time it is
\* referenced (one after the other, or in a selector and then in the
\* variant chosen) without a 'Cyclic reference' error, and a message may
\* select on its own attribute.
C13_DirtyIsInProgress ==
    /\ ~Raised => /\ dirty = InProgress
                  /\ Cardinality(PatternFrames) = Cardinality(dirty)
    /\ (ctl.mode = "ret" /\ stack = <<>>) \/ Done => dirty = {}
    /\ (Done /\ node.type = "array" /\ node.elems = <<Ref("sub"), Ref("sub")>>)
         => CountOf(CyclicError, errors) = 0
    /\ (Done /\ IsMessage("seltwice")) => CountOf(CyclicError, errors) = 0
    /\ (Done /\ IsMessage("selattr")) => PlainText = "Bar" /\ errors = <<>>
C13_Witness ==
    /\ IsMessage("seltwice") /\ ArgIs(Str("a"))
    /\ chose.n = 1
    /\ dirty = {PatternId("seltwice"), PatternId("seltwice[a]"), PatternId("sub")}
    /\ dirty = InProgress
    /\ errors = <<>>

=============================================================================
